---- MODULE Spec2Model ----
(***************************************************************************)
(* A model of the stress-test client of a line-delimited file server:      *)
(* FileClient (send_command, remote_list, remote_get, remote_upload),      *)
(* generate_test_file, worker_task and run_full_test of                    *)
(* src/stress_test_client.py.                                              *)
(*                                                                         *)
(* Six specifications share the module:                                    *)
(*   Spec        the pool: run_full_test driving num_workers worker_task   *)
(*               workflows against a server, then the statistics;          *)
(*   SpecHistory Spec with the history of what every worker got from the   *)
(*               server;                                                   *)
(*   SpecWorker  SpecHistory for a run of one worker;                      *)
(*   SpecLive    Spec with the fairness the executor and a terminating     *)
(*               server give;                                              *)
(*   SpecFrame   one send_command call at the level of received chunks;    *)
(*   SpecCodec   one file through remote_upload and remote_get.            *)
(***************************************************************************)
EXTENDS Integers, Sequences, FiniteSets, TLC

(***************************************************************************)
(* Bounds of the model.                                                    *)
(***************************************************************************)
\* run_full_test is checked for num_workers in 1..MaxWorkers
MaxWorkers == 2
\* the number of bytes of the test file: it stands for the
\* size_mb * 1024 * 1024 of generate_test_file
FileBytes == 11

(***************************************************************************)
(* Program constants.                                                      *)
(***************************************************************************)
\* the --file-size argument: the first of its choices
file_size_mb == 10
\* download_result[:10] == file_data[:10]
PrefixLen == 10
\* sock.recv(8192)
RecvSize == 8192

(***************************************************************************)
(* Small helpers on sequences and sets.                                    *)
(***************************************************************************)
Min(a, b) == IF a <= b THEN a ELSE b

\* Python's s[:n]
Take(s, n) == SubSeq(s, 1, Min(n, Len(s)))

\* Python's s[n:]
Drop(s, n) == SubSeq(s, Min(n, Len(s)) + 1, Len(s))

Range(s) == {s[i] : i \in 1..Len(s)}

RECURSIVE SumOver(_, _)
\* Python's sum(f[x] for x in S)
SumOver(f, S) ==
    IF S = {} THEN 0
    ELSE LET x == CHOOSE y \in S : TRUE
         IN  f[x] + SumOver(f, S \ {x})

\* Python's max(...) over a non-empty collection
MaxOf(S) == CHOOSE m \in S : \A x \in S : x <= m

RECURSIVE Gcd(_, _)
Gcd(a, b) == IF b = 0 THEN a ELSE Gcd(b, a % b)

\* the quotient a / b of Python's true division, b > 0, in lowest terms
Quotient(a, b) == << a \div Gcd(a, b), b \div Gcd(a, b) >>

(***************************************************************************)
(* base64, as base64.b64encode / base64.b64decode compute it.  A byte is a *)
(* number in 0..255; a character of the encoded text is its index in the   *)
(* base64 alphabet, 0..63, and Pad stands for '='.                         *)
(***************************************************************************)
Pad == 64

\* the k-th byte, 0 past the end: the missing bits of a last group are 0
ByteAt(bytes, k) == IF k <= Len(bytes) THEN bytes[k] ELSE 0

\* the p-th character (0..3) of the group that encodes the three bytes
\* from position k on
B64Char(bytes, k, p) ==
    IF p = 0 THEN ByteAt(bytes, k) \div 4
    ELSE IF p = 1 THEN
        (ByteAt(bytes, k) % 4) * 16 + ByteAt(bytes, k + 1) \div 16
    ELSE IF p = 2 THEN
        IF k + 1 > Len(bytes) THEN Pad
        ELSE (ByteAt(bytes, k + 1) % 16) * 4 + ByteAt(bytes, k + 2) \div 64
    ELSE
        IF k + 2 > Len(bytes) THEN Pad ELSE ByteAt(bytes, k + 2) % 64

\* base64.b64encode: four characters for every three bytes, the last group
\* padded
B64Encode(bytes) ==
    [i \in 1..(4 * ((Len(bytes) + 2) \div 3)) |->
        B64Char(bytes, 3 * ((i - 1) \div 4) + 1, (i - 1) % 4)]

\* a decoder that takes the padding for data
NoPadding(text) == 0

\* the number of padding characters at the end of a text
Padding(text) ==
    IF Len(text) < 2 THEN 0
    ELSE IF text[Len(text) - 1] = Pad THEN 2
    ELSE IF text[Len(text)] = Pad THEN 1
    ELSE 0

\* the q-th byte (0..2) of the group of four characters from position k on
B64Byte(text, k, q) ==
    IF q = 0 THEN text[k] * 4 + text[k + 1] \div 16
    ELSE IF q = 1 THEN (text[k + 1] % 16) * 16 + text[k + 2] \div 4
    ELSE (text[k + 2] % 4) * 64 + text[k + 3]

\* the bytes of a text of whole groups: three for every group, less the
\* padding
B64DecodeGroups(text) ==
    [j \in 1..(3 * (Len(text) \div 4) - Padding(text)) |->
        B64Byte(text, 4 * ((j - 1) \div 3) + 1, (j - 1) % 3)]

\* base64.b64decode on a text made of alphabet characters and trailing
\* padding: a text whose length is no multiple of four raises binascii.Error
\* ("Incorrect padding"), any other is decoded group by group.
B64Decodes(text) == Len(text) % 4 = 0

B64Decode(text) ==
    IF B64Decodes(text)
    THEN [ok |-> TRUE, bytes |-> B64DecodeGroups(text)]
    ELSE [ok |-> FALSE, bytes |-> <<>>]

(***************************************************************************)
(* Values.                                                                 *)
(*                                                                         *)
(* A response is what send_command returns: the value json.loads built, or *)
(* the {"status": "ERROR", "data": str(e)} of its except branch.  kind     *)
(* tells a JSON object ("dict") from any other JSON value; status is "OK", *)
(* "ERROR" or "none" (no such key); data is the value under "data": none,  *)
(* a list of filenames, a text (names: the filenames that occur in it as   *)
(* substrings) or a number; data_file is the text under "data_file".       *)
(***************************************************************************)
NoData == [t |-> "none", names |-> {}]

ListData(S) == [t |-> "list", names |-> S]

StrData(S) == [t |-> "str", names |-> S]

NumData == [t |-> "num", names |-> {}]

NoFile == [present |-> FALSE, text |-> <<>>]

FileText(text) == [present |-> TRUE, text |-> text]

Resp(kind, status, data, data_file) ==
    [kind |-> kind, status |-> status, data |-> data, data_file |-> data_file]

\* a JSON document that is no object, such as []
NotDict == Resp("other", "none", NoData, NoFile)

\* the placeholder of a response that was never received
NoResp == Resp("none", "none", NoData, NoFile)

\* one remote name for all the workers of a run
FilenameOfRun(worker_id) == << "testfile", 0, file_size_mb >>

\* the remote name of a worker's file, f"testfile_{worker_id}_{file_size_mb}mb.dat"
Filename(worker_id) == << "testfile", worker_id, file_size_mb >>

\* the bytes one call of os.urandom(size) gives: each call gives its own
Urandom(call) ==
    [i \in 1..FileBytes |-> (call * 101 + i * 7) % 256]

\* time.time() - start around a transfer: the clock counts one unit for each
\* byte that crossed the wire, so the transfer of nothing reads 0
Elapsed(bytes) == Len(bytes)

(***************************************************************************)
(* The state.                                                              *)
(***************************************************************************)
VARIABLES
    num_workers,       \* run_full_test's argument
    use_process_pool,  \* run_full_test's argument
    server_kind,       \* the server the run is pointed at
    store,             \* the stub server's files: filename -> bytes
    fixture,           \* the file source_{file_size_mb}mb.dat
    pc,                \* where each worker_task is
    file_data,         \* worker_task's file_data
    recording,         \* whether the history heard is kept
    heard,             \* history: what each worker got from the server
    results,           \* worker_task's results
    sent,              \* the commands each worker has sent, in order
    connections,       \* the sockets each worker's client has created
    all_results,       \* run_full_test's all_results
    stage,             \* where run_full_test is
    report,            \* what run_full_test returns
    fpc,               \* where the send_command call is
    sock,              \* its socket
    wire,              \* the bytes the peer has still to send
    frame,             \* the bytes the peer sends in all
    data_received,     \* send_command's data_received
    ret,               \* what send_command returns
    cpc,               \* where the client is with the one file it transfers
    content,           \* the bytes of that file
    command_str,       \* remote_upload's command_str
    isifile            \* what remote_get returned

poolVars ==
    << num_workers, use_process_pool, server_kind, store, fixture, pc,
       file_data, recording, heard, results, sent, connections,
       all_results, stage, report >>

frameVars == << fpc, sock, wire, frame, data_received, ret >>

codecVars == << cpc, content, command_str, isifile >>

vars == << poolVars, frameVars, codecVars >>

Workers == 0..(num_workers - 1)

(***************************************************************************)
(* The protocol client, above send_command.                                *)
(***************************************************************************)
\* the command strings of remote_upload, remote_list and remote_get
\* the payload line of the UPLOAD command
UploadPayload(bytes) == B64Encode(bytes)

UploadCommand(filename) == [verb |-> "UPLOAD", filename |-> filename]

ListCommand == [verb |-> "LIST", filename |-> << >>]

GetCommand(filename) == [verb |-> "GET", filename |-> filename]

\* what a call gives: a value, or an exception
Return(bytes) == [raised |-> FALSE, exc |-> "none", none |-> FALSE, bytes |-> bytes]

ReturnNone == [raised |-> FALSE, exc |-> "none", none |-> TRUE, bytes |-> << >>]

Raise(exc) == [raised |-> TRUE, exc |-> exc, none |-> FALSE, bytes |-> << >>]

\* remote_get, from the response send_command returned
RemoteGet(hasil) ==
    IF hasil.kind # "dict" THEN Raise("TypeError")
    ELSE IF hasil.status = "none" THEN Raise("KeyError")
    ELSE IF hasil.status = "OK" THEN
        IF ~hasil.data_file.present THEN Raise("KeyError")
        ELSE IF B64Decodes(hasil.data_file.text)
             THEN Return(B64Decode(hasil.data_file.text).bytes)
             ELSE Raise("binascii.Error")
    ELSE ReturnNone

(***************************************************************************)
(* worker_task, between two blocking points.  A step gives the worker's    *)
(* next place, its results and the command it sends, if any.               *)
(***************************************************************************)
NoUpload ==
    [present |-> FALSE, success |-> FALSE, time |-> 0, bytes |-> 0,
     server_response |-> NoResp]

NoDownload ==
    [present |-> FALSE, success |-> FALSE, time |-> 0, bytes |-> 0,
     data_valid |-> FALSE, error |-> "none"]

\* results = {'worker_id': worker_id}
NewResults(worker_id) ==
    [worker_id |-> worker_id, upload |-> NoUpload, download |-> NoDownload,
     error |-> "none"]

\* connects tells how many sockets the step has created
Step(place, res, cmds) ==
    [pc |-> place, results |-> res, cmds |-> cmds, connects |-> 0]

\* return results
Done(res) == Step("done", res, << >>)

\* an exception leaves worker_task, and the future holds it
TaskFaultPropagates(res, exc) == Step("raised", res, << >>)

\* except Exception as e: results['error'] = str(e), then return results
TaskFault(res, exc) == Done([res EXCEPT !.error = exc])

\* send_command creates a socket of its own; the command is sent once
\* sock.connect has succeeded, and a refused connection raises out of
\* send_command
Call(res, connected, cmd, place) ==
    [(IF connected THEN Step(place, res, << cmd >>)
      ELSE TaskFault(res, "ConnectionRefusedError"))
        EXCEPT !.connects = 1]

\* a success test that takes every answer but an ERROR for a success
UploadSucceededUnlessError(upload_result) == upload_result.status # "ERROR"

\* upload_result.get('status') == 'OK'
UploadSucceeded(upload_result) == upload_result.status = "OK"

\* results['upload']
UploadOutcome(upload_result, upload_time, data) ==
    [present |-> TRUE, success |-> UploadSucceeded(upload_result),
     time |-> upload_time, bytes |-> Len(data),
     server_response |-> upload_result]

SkippedDownload ==
    [NoDownload EXCEPT !.present = TRUE,
                       !.error = "Upload failed, skipping download"]

NotFoundDownload ==
    [NoDownload EXCEPT !.present = TRUE,
                       !.error = "File not found on server after upload"]

NoneDownload ==
    [NoDownload EXCEPT !.present = TRUE, !.error = "Server returned None"]

\* filename in list_result.get('data', []): membership in a list, and the
\* substring test in a text
InList(filename, listed) ==
    /\ listed.data.t \in {"list", "str"}
    /\ filename \in listed.data.names

\* a comparison of the whole payload
DataValidWhole(download_result, data) == download_result = data

\* download_result[:10] == file_data[:10]
DataValid(download_result, data) ==
    Take(download_result, PrefixLen) = Take(data, PrefixLen)

\* results['download'] of the download phase
DownloadOutcome(download_result, download_time, data) ==
    IF download_result.none THEN NoneDownload
    ELSE [present |-> TRUE, success |-> TRUE, time |-> download_time,
          bytes |-> Len(download_result.bytes),
          data_valid |-> DataValid(download_result.bytes, data),
          error |-> "none"]

\* a failed upload that leaves worker_task as an exception
UploadFailedRaises(res) == Step("raised", res, << >>)

\* if not results['upload']['success']: the download is marked, and
\* worker_task returns
UploadFailed(res) == Done([res EXCEPT !.download = SkippedDownload])

\* from the return of remote_upload to the LIST command
AfterUpload(res, data, upload_result, connected) ==
    IF upload_result.kind # "dict" THEN TaskFault(res, "AttributeError")
    ELSE LET r == [res EXCEPT !.upload =
                        UploadOutcome(upload_result, Elapsed(data), data)]
         IN  IF ~r.upload.success THEN UploadFailed(r)
             ELSE Call(r, connected, ListCommand, "list_wait")

\* a verify phase that asks again when the file is not listed
AfterListRetries(res, listed, connected) ==
    IF listed.kind # "dict" THEN TaskFault(res, "AttributeError")
    ELSE IF listed.data.t = "num" THEN TaskFault(res, "TypeError")
    ELSE IF ~InList(Filename(res.worker_id), listed)
         THEN Call(res, connected, ListCommand, "list_wait")
         ELSE Call(res, connected, GetCommand(Filename(res.worker_id)),
                   "get_wait")

\* from the return of remote_list to the GET command
AfterList(res, listed, connected) ==
    IF listed.kind # "dict" THEN TaskFault(res, "AttributeError")
    ELSE IF listed.data.t = "num" THEN TaskFault(res, "TypeError")
    ELSE IF ~InList(Filename(res.worker_id), listed)
         THEN Done([res EXCEPT !.download = NotFoundDownload])
         ELSE Call(res, connected, GetCommand(Filename(res.worker_id)),
                   "get_wait")

\* a download phase that starts a result of its own
AfterGetFresh(res, data, download_result) ==
    IF download_result.raised THEN TaskFault(res, download_result.exc)
    ELSE Done([NewResults(res.worker_id) EXCEPT !.download =
                    DownloadOutcome(download_result,
                                    Elapsed(download_result.bytes), data)])

\* from the end of the remote_get call, which returned download_result or
\* raised, to the end of worker_task
AfterGet(res, data, download_result) ==
    IF download_result.raised THEN TaskFault(res, download_result.exc)
    ELSE Done([res EXCEPT !.download =
                    DownloadOutcome(download_result,
                                    Elapsed(download_result.bytes), data)])

(***************************************************************************)
(* The server.  "arbitrary" is the black box behind the wire contract: it  *)
(* may refuse a connection and answer a command with any document.  "stub" *)
(* accepts every UPLOAD, lists what it holds and gives back on GET what    *)
(* was uploaded; "stub_upload_errors" is the stub that may answer an       *)
(* UPLOAD with ERROR.                                                      *)
(***************************************************************************)
StubKinds == {"stub", "stub_upload_errors"}

ServerKinds == {"arbitrary"} \cup StubKinds

OkResp == Resp("dict", "OK", NoData, NoFile)

\* an ERROR response whose message names the files of S: the server's, and
\* with S empty the {"status": "ERROR", "data": str(e)} of send_command's
\* except branch, as the text of a socket, codec or JSON exception names no
\* file
ErrorResp(S) == Resp("dict", "ERROR", StrData(S), NoFile)

\* sock.connect succeeds (TRUE) or is refused (FALSE)
ConnectOutcomes == IF server_kind = "arbitrary" THEN BOOLEAN ELSE {TRUE}

AlterAt(bytes, i) == [bytes EXCEPT ![i] = (@ + 1) % 256]

NoStored == [present |-> FALSE, bytes |-> << >>]

\* the stub's store after an UPLOAD command with this payload line
StubStore(cmd, payload) ==
    [store EXCEPT ![cmd.filename] =
        [present |-> TRUE, bytes |-> B64Decode(payload).bytes]]

ArbitraryUpload ==
    {OkResp, ErrorResp({}), Resp("dict", "none", NoData, NoFile), NotDict}

ArbitraryList(worker_id) ==
    {Resp("dict", "OK", ListData({Filename(worker_id)}), NoFile),
     Resp("dict", "OK", ListData({}), NoFile),
     OkResp,
     Resp("dict", "OK", NumData, NoFile),
     ErrorResp({Filename(worker_id)}),
     ErrorResp({}),
     Resp("dict", "none", ListData({Filename(worker_id)}), NoFile),
     NotDict}

\* an encoded payload cut short by one character
Truncated(text) == Take(text, Len(text) - 1)

\* what an arbitrary server may do with a GET for an upload of data: give
\* the bytes back, give them with the first byte changed, with the last
\* byte changed, give fewer bytes, cut the encoded text short, leave the
\* status out, leave the payload out, answer ERROR, answer no object
ArbitraryGetChoices ==
    {"same", "first", "last", "fewer", "truncated", "no_status", "no_file",
     "error", "not_dict"}

OkFile(bytes) == Resp("dict", "OK", NoData, FileText(B64Encode(bytes)))

ArbitraryGet(choice, data) ==
    CASE choice = "same" -> OkFile(data)
      [] choice = "first" ->
            OkFile(IF Len(data) = 0 THEN << 7 >> ELSE AlterAt(data, 1))
      [] choice = "last" ->
            OkFile(IF Len(data) = 0 THEN << 7 >>
                   ELSE AlterAt(data, Len(data)))
      [] choice = "fewer" -> OkFile(Take(data, Len(data) - 1))
      [] choice = "truncated" ->
            Resp("dict", "OK", NoData, FileText(Truncated(B64Encode(data))))
      [] choice = "no_status" ->
            Resp("dict", "none", NoData, FileText(B64Encode(data)))
      [] choice = "no_file" -> OkResp
      [] choice = "error" -> ErrorResp({})
      [] OTHER -> NotDict

\* the answers to an UPLOAD command, each with the store it leaves
UploadAnswers(cmd, payload) ==
    IF server_kind = "arbitrary"
    THEN {[resp |-> r, store |-> store] : r \in ArbitraryUpload}
    ELSE {[resp |-> OkResp, store |-> StubStore(cmd, payload)]}
         \cup (IF server_kind = "stub_upload_errors"
               THEN {[resp |-> ErrorResp({}), store |-> store]}
               ELSE {})

\* the answers to a LIST command
ListAnswers(worker_id) ==
    IF server_kind = "arbitrary" THEN ArbitraryList(worker_id)
    ELSE {Resp("dict", "OK",
               ListData({f \in DOMAIN store : store[f].present}), NoFile)}

\* what the server may do with a GET command
GetChoices == IF server_kind = "arbitrary" THEN ArbitraryGetChoices
              ELSE {"stored"}

\* the answer to a GET command of a worker that uploaded data
GetAnswer(choice, cmd, data) ==
    IF server_kind = "arbitrary" THEN ArbitraryGet(choice, data)
    ELSE IF store[cmd.filename].present
         THEN OkFile(store[cmd.filename].bytes)
         ELSE ErrorResp({})

(***************************************************************************)
(* The statistics of run_full_test.                                        *)
(***************************************************************************)
\* r.get('upload', {}).get('success', False)
UploadOk(r) == r.upload.present /\ r.upload.success

\* r.get('download', {}).get('success', False)
DownloadOk(r) == r.download.present /\ r.download.success

\* total_bytes / max_time if max_time > 0 else 0
Throughput(total_bytes, max_time) ==
    IF max_time > 0 THEN Quotient(total_bytes, max_time) ELSE Quotient(0, 1)

NoStats ==
    [successful |-> 0, failed |-> 0, total_time |-> 0,
     throughput |-> Quotient(0, 1), total_bytes |-> 0]

NoReport ==
    [made |-> FALSE, file_size_mb |-> 0, num_workers |-> 0,
     pool_type |-> "none", upload |-> NoStats, download |-> NoStats]

\* the r['upload']['time'] that max_upload_time is the max of
UploadTimes(all) ==
    {all[i].upload.time : i \in {j \in 1..Len(all) : all[j].upload.present}}

\* the r['download']['time'] that max_download_time is the max of
DownloadTimes(all) ==
    {all[i].download.time : i \in {j \in 1..Len(all) : DownloadOk(all[j])}}

\* the statistics of one phase: ok tells the successful results, bytes
\* their byte counts, times the elapsed times the max is taken of
PhaseStats(n, ok, bytes, times) ==
    LET successful == Cardinality(ok)
        total_bytes == SumOver(bytes, ok)
        max_time == MaxOf(times)
    IN  [successful |-> successful, failed |-> n - successful,
         total_time |-> max_time,
         throughput |-> Throughput(total_bytes, max_time),
         total_bytes |-> total_bytes]

\* max() of an empty sequence raises ValueError
StatisticsRaise(all) == UploadTimes(all) = {} \/ DownloadTimes(all) = {}

\* the dictionary run_full_test returns
Statistics(all, n, process_pool) ==
    [made |-> TRUE, file_size_mb |-> file_size_mb, num_workers |-> n,
     pool_type |-> IF process_pool THEN "Process" ELSE "Thread",
     upload |-> PhaseStats(n, {i \in 1..Len(all) : UploadOk(all[i])},
                           [i \in 1..Len(all) |-> all[i].upload.bytes],
                           UploadTimes(all)),
     download |-> PhaseStats(n, {i \in 1..Len(all) : DownloadOk(all[i])},
                             [i \in 1..Len(all) |-> all[i].download.bytes],
                             DownloadTimes(all))]

(***************************************************************************)
(* The pool: Init is run_full_test entered, every worker_task submitted.   *)
(***************************************************************************)
\* the fixture a previous run left behind
PriorFixture == [present |-> TRUE, content |-> Urandom(MaxWorkers)]

NoFixture == [present |-> FALSE, content |-> << >>]

\* no send_command call is followed
FrameIdle ==
    /\ fpc = "idle"
    /\ sock = "none"
    /\ wire = << >>
    /\ frame = << >>
    /\ data_received = << >>
    /\ ret = "none"

\* no file is followed through the codec
CodecIdle ==
    /\ cpc = "idle"
    /\ content = << >>
    /\ command_str = << >>
    /\ isifile = ReturnNone

\* run_full_test entered: the fixture is there and the server is any server,
\* or the fixture is missing and the server is one of the stubs
Submitted ==
    /\ num_workers \in 1..MaxWorkers
    /\ use_process_pool \in BOOLEAN
    /\ \/ /\ server_kind \in ServerKinds
          /\ fixture = PriorFixture
       \/ /\ server_kind \in StubKinds
          /\ fixture = NoFixture
    /\ store = [f \in {Filename(w) : w \in 0..(MaxWorkers - 1)} |-> NoStored]
    /\ pc = [w \in 0..(num_workers - 1) |-> "init"]
    /\ file_data = [w \in 0..(num_workers - 1) |-> << >>]
    /\ heard = [w \in 0..(num_workers - 1) |-> << >>]
    /\ results = [w \in 0..(num_workers - 1) |-> NewResults(w)]
    /\ sent = [w \in 0..(num_workers - 1) |-> << >>]
    /\ connections = [w \in 0..(num_workers - 1) |-> 0]
    /\ all_results = << >>
    /\ stage = "running"
    /\ report = NoReport
    /\ FrameIdle
    /\ CodecIdle

Init == Submitted /\ recording = FALSE

\* the same run, the history of every worker kept
InitHistory == Submitted /\ recording = TRUE

\* a worker takes a step: st is the Step it computed from the answer resp
\* (NoResp: from none) and from a connection that could be made or not;
\* data is its file_data, a local that is gone once worker_task has ended
Advance(w, st, data, resp, connected) ==
    \E step \in {st} :
        /\ pc' = [pc EXCEPT ![w] = step.pc]
        /\ results' = [results EXCEPT ![w] = step.results]
        /\ sent' = [sent EXCEPT ![w] = @ \o step.cmds]
        /\ connections' = [connections EXCEPT ![w] = @ + step.connects]
        /\ file_data' = [file_data EXCEPT ![w] =
                            IF step.pc \in {"done", "raised"} THEN << >>
                            ELSE data]
        /\ heard' = IF recording
                    THEN [heard EXCEPT ![w] =
                            Append(@, [resp |-> resp,
                                       connected |-> connected])]
                    ELSE heard
        /\ UNCHANGED recording

\* if not os.path.exists(test_filename)
CheckFixture(w) ==
    /\ pc[w] = "init"
    /\ pc' = [pc EXCEPT ![w] = IF fixture.present THEN "read" ELSE "generate"]
    /\ UNCHANGED << num_workers, use_process_pool, server_kind, store,
                    fixture, file_data, recording, heard, results,
                    sent, connections, all_results, stage, report,
                    frameVars, codecVars >>

\* generate_test_file: os.urandom, then open(filename, 'wb') creates the
\* file, or empties the one that is there
GenerateOpen(w) ==
    /\ pc[w] = "generate"
    /\ fixture' = [present |-> TRUE, content |-> << >>]
    /\ pc' = [pc EXCEPT ![w] = "write"]
    /\ UNCHANGED << num_workers, use_process_pool, server_kind, store,
                    file_data, recording, heard, results, sent,
                    connections, all_results, stage, report, frameVars,
                    codecVars >>

\* generate_test_file: f.write(data) from the start of the file, and close
GenerateWrite(w) ==
    /\ pc[w] = "write"
    /\ fixture' = [present |-> TRUE, content |-> Urandom(w)]
    /\ pc' = [pc EXCEPT ![w] = "read"]
    /\ UNCHANGED << num_workers, use_process_pool, server_kind, store,
                    file_data, recording, heard, results, sent,
                    connections, all_results, stage, report, frameVars,
                    codecVars >>

\* file_data = f.read(), then remote_upload up to the sent command
ReadFixture(w) ==
    /\ pc[w] = "read"
    /\ \E connected \in ConnectOutcomes :
         Advance(w, Call(results[w], connected, UploadCommand(Filename(w)),
                         "upload_wait"),
                 fixture.content, NoResp, connected)
    /\ UNCHANGED << num_workers, use_process_pool, server_kind, store,
                    fixture, all_results, stage, report, frameVars, codecVars >>

\* the UPLOAD is answered
UploadResponse(w) ==
    /\ pc[w] = "upload_wait"
    /\ \E payload \in {UploadPayload(file_data[w])} :
         \E a \in UploadAnswers(sent[w][Len(sent[w])], payload),
            connected \in ConnectOutcomes :
             /\ Advance(w, AfterUpload(results[w], file_data[w], a.resp,
                                       connected),
                        file_data[w], a.resp, connected)
             /\ store' = a.store
    /\ UNCHANGED << num_workers, use_process_pool, server_kind, fixture,
                    all_results, stage, report, frameVars, codecVars >>

\* the LIST is answered
ListResponse(w) ==
    /\ pc[w] = "list_wait"
    /\ \E answer \in ListAnswers(w), connected \in ConnectOutcomes :
         Advance(w, AfterList(results[w], answer, connected),
                 file_data[w], answer, connected)
    /\ UNCHANGED << num_workers, use_process_pool, server_kind, store,
                    fixture, all_results, stage, report, frameVars, codecVars >>

\* the GET is answered
GetResponse(w) ==
    /\ pc[w] = "get_wait"
    /\ \E choice \in GetChoices :
         \E hasil \in {GetAnswer(choice, sent[w][Len(sent[w])],
                                 file_data[w])} :
             \E download_result \in {RemoteGet(hasil)} :
                 Advance(w, AfterGet(results[w], file_data[w],
                                     download_result),
                         file_data[w], hasil, TRUE)
    /\ UNCHANGED << num_workers, use_process_pool, server_kind, store,
                    fixture, all_results, stage, report, frameVars, codecVars >>

\* the workers whose result all_results holds
Collected == {all_results[i].worker_id : i \in 1..Len(all_results)}

\* for future in as_completed(futures): all_results.append(future.result());
\* future.result() raises what the task raised
Collect(w) ==
    /\ stage = "running"
    /\ pc[w] \in {"done", "raised"}
    /\ w \notin Collected
    /\ all_results' = IF pc[w] = "done" THEN Append(all_results, results[w])
                      ELSE all_results
    /\ stage' = IF pc[w] = "done" THEN stage ELSE "aborted"
    /\ UNCHANGED << num_workers, use_process_pool, server_kind, store,
                    fixture, pc, file_data, recording, heard, results,
                    sent, connections, report, frameVars, codecVars >>

\* statistics that do not wait for the last worker
AggregateEarly ==
    /\ stage = "running"
    /\ Len(all_results) >= 1
    /\ stage' = IF StatisticsRaise(all_results) THEN "raised" ELSE "reported"
    /\ report' = IF StatisticsRaise(all_results) THEN report
                 ELSE Statistics(all_results, num_workers, use_process_pool)
    /\ UNCHANGED << num_workers, use_process_pool, server_kind, store,
                    fixture, pc, file_data, recording, heard, results,
                    sent, connections, all_results, frameVars, codecVars >>

\* the statistics and the return, once the loop over the futures has ended
Aggregate ==
    /\ stage = "running"
    /\ Len(all_results) = num_workers
    /\ stage' = IF StatisticsRaise(all_results) THEN "raised" ELSE "reported"
    /\ report' = IF StatisticsRaise(all_results) THEN report
                 ELSE Statistics(all_results, num_workers, use_process_pool)
    /\ UNCHANGED << num_workers, use_process_pool, server_kind, store,
                    fixture, pc, file_data, recording, heard, results,
                    sent, connections, all_results, frameVars, codecVars >>

WorkerStep(w) ==
    \/ CheckFixture(w)
    \/ GenerateOpen(w)
    \/ GenerateWrite(w)
    \/ ReadFixture(w)
    \/ UploadResponse(w)
    \/ ListResponse(w)
    \/ GetResponse(w)

Next ==
    \/ Aggregate
    \/ \E w \in Workers : Collect(w)
    \/ \E w \in Workers : WorkerStep(w)

Spec == Init /\ [][Next]_vars

SpecHistory == InitHistory /\ [][Next]_vars

\* a run of one worker, its history kept
InitWorker == InitHistory /\ num_workers = 1

SpecWorker == InitWorker /\ [][Next]_vars

\* the executor runs the submitted tasks, a server exchange that terminates
\* is answered, and the loop over as_completed goes on: as long as a step
\* can be taken, one is taken
Fairness == WF_vars(Next)

SpecLive == Spec /\ Fairness

(***************************************************************************)
(* One send_command call, at the level of the bytes received.  A byte is a *)
(* number in 0..255, a character of a str its code point.  The peer sends  *)
(* the bytes of frame in chunks of any size and then closes.               *)
(***************************************************************************)
\* bytes.decode(): strict UTF-8.  The number of bytes of the character that
\* starts with this byte, 0 for a byte that starts none
Utf8Width(lead) ==
    IF lead < 128 THEN 1
    ELSE IF lead >= 194 /\ lead <= 223 THEN 2
    ELSE IF lead >= 224 /\ lead <= 239 THEN 3
    ELSE IF lead >= 240 /\ lead <= 244 THEN 4
    ELSE 0

\* the bytes i+1..i+n-1 are there and are continuation bytes
Utf8Continues(bytes, i, n) ==
    /\ i + n - 1 <= Len(bytes)
    /\ \A k \in (i + 1)..(i + n - 1) : bytes[k] >= 128 /\ bytes[k] <= 191

\* the code point of the n bytes from i on
Utf8CodePoint(bytes, i, n) ==
    IF n = 1 THEN bytes[i]
    ELSE IF n = 2 THEN (bytes[i] - 192) * 64 + (bytes[i + 1] - 128)
    ELSE IF n = 3 THEN
        (bytes[i] - 224) * 4096 + (bytes[i + 1] - 128) * 64
            + (bytes[i + 2] - 128)
    ELSE (bytes[i] - 240) * 262144 + (bytes[i + 1] - 128) * 4096
            + (bytes[i + 2] - 128) * 64 + (bytes[i + 3] - 128)

RECURSIVE Utf8DecodeFrom(_, _, _)
\* the characters of the bytes from i on, after the characters acc:
\* UnicodeDecodeError (not ok) at a byte that starts no character and at a
\* character whose bytes are not all there
Utf8DecodeFrom(bytes, i, acc) ==
    IF i > Len(bytes) THEN [ok |-> TRUE, chars |-> acc]
    ELSE LET n == Utf8Width(bytes[i])
         IN  IF n = 0 \/ ~Utf8Continues(bytes, i, n)
             THEN [ok |-> FALSE, chars |-> << >>]
             ELSE Utf8DecodeFrom(bytes, i + n,
                                 Append(acc, Utf8CodePoint(bytes, i, n)))

\* data.decode()
Utf8Decode(bytes) == Utf8DecodeFrom(bytes, 1, << >>)

\* "\r\n\r\n" in data_received
HasTerminator(text) ==
    \E i \in 1..(Len(text) - 3) : SubSeq(text, i, i + 3) = << 13, 10, 13, 10 >>

(***************************************************************************)
(* json.loads, for the documents made of objects, arrays, strings without  *)
(* escapes and non-negative integers.  A value is [t, v]: t its type, v    *)
(* the characters of a string, the digits of a number, the items of an     *)
(* array, the <<key, value>> members of an object.  A parse gives ok, the  *)
(* value and the position after it.                                        *)
(***************************************************************************)
JsonValue(t, v) == [t |-> t, v |-> v]

JsonNull == JsonValue("null", << >>)

Parsed(val, next) == [ok |-> TRUE, val |-> val, next |-> next]

ParseError == [ok |-> FALSE, val |-> JsonNull, next |-> 0]

\* the character at i, 0 past the end
CharAt(text, i) == IF i >= 1 /\ i <= Len(text) THEN text[i] ELSE 0

\* space, tab, line feed, carriage return
IsWhitespace(c) == c \in {32, 9, 10, 13}

IsDigit(c) == c >= 48 /\ c <= 57

RECURSIVE SkipWhitespace(_, _)
SkipWhitespace(text, i) ==
    IF IsWhitespace(CharAt(text, i)) THEN SkipWhitespace(text, i + 1) ELSE i

\* a string from the quote at i: up to the next quote, with no control
\* character in between
ParseString(text, i) ==
    LET closing == {j \in (i + 1)..Len(text) : text[j] = 34}
    IN  IF closing = {} THEN ParseError
        ELSE LET j == CHOOSE k \in closing : \A m \in closing : k <= m
             IN  IF \E k \in (i + 1)..(j - 1) : text[k] < 32 \/ text[k] = 92
                 THEN ParseError
                 ELSE Parsed(JsonValue("string", SubSeq(text, i + 1, j - 1)),
                             j + 1)

\* a non-negative integer from the digit at i, with no leading zero
ParseNumber(text, i) ==
    LET after == CHOOSE j \in (i + 1)..(Len(text) + 1) :
                    /\ ~IsDigit(CharAt(text, j))
                    /\ \A k \in i..(j - 1) : IsDigit(text[k])
    IN  IF text[i] = 48 /\ after > i + 1 THEN ParseError
        ELSE Parsed(JsonValue("number", SubSeq(text, i, after - 1)), after)

RECURSIVE ParseValue(_, _)
RECURSIVE ParseElements(_, _, _)
RECURSIVE ParseMembers(_, _, _)

\* the items of an array from i on, after the items acc, up to ']'
ParseElements(text, i, acc) ==
    LET item == ParseValue(text, i)
    IN  IF ~item.ok THEN ParseError
        ELSE LET j == SkipWhitespace(text, item.next)
             IN  IF CharAt(text, j) = 44
                 THEN ParseElements(text, SkipWhitespace(text, j + 1),
                                    Append(acc, item.val))
                 ELSE IF CharAt(text, j) = 93
                 THEN Parsed(JsonValue("array", Append(acc, item.val)), j + 1)
                 ELSE ParseError

\* the members of an object from i on, after the members acc, up to '}'
ParseMembers(text, i, acc) ==
    IF CharAt(text, i) # 34 THEN ParseError
    ELSE LET key == ParseString(text, i)
         IN  IF ~key.ok THEN ParseError
             ELSE LET c == SkipWhitespace(text, key.next)
                  IN  IF CharAt(text, c) # 58 THEN ParseError
                      ELSE LET item == ParseValue(text,
                                                  SkipWhitespace(text, c + 1))
                           IN  IF ~item.ok THEN ParseError
                               ELSE LET j == SkipWhitespace(text, item.next)
                                        members ==
                                            Append(acc, << key.val.v, item.val >>)
                                    IN  IF CharAt(text, j) = 44
                                        THEN ParseMembers(
                                                text,
                                                SkipWhitespace(text, j + 1),
                                                members)
                                        ELSE IF CharAt(text, j) = 125
                                        THEN Parsed(JsonValue("object", members),
                                                    j + 1)
                                        ELSE ParseError

\* the value that starts at i
ParseValue(text, i) ==
    LET c == CharAt(text, i)
    IN  IF c = 34 THEN ParseString(text, i)
        ELSE IF IsDigit(c) THEN ParseNumber(text, i)
        ELSE IF c = 91 THEN
            LET j == SkipWhitespace(text, i + 1)
            IN  IF CharAt(text, j) = 93
                THEN Parsed(JsonValue("array", << >>), j + 1)
                ELSE ParseElements(text, j, << >>)
        ELSE IF c = 123 THEN
            LET j == SkipWhitespace(text, i + 1)
            IN  IF CharAt(text, j) = 125
                THEN Parsed(JsonValue("object", << >>), j + 1)
                ELSE ParseMembers(text, j, << >>)
        ELSE ParseError

\* json.loads: one value, whitespace around it, nothing else
JsonLoads(text) ==
    LET doc == ParseValue(text, SkipWhitespace(text, 1))
    IN  IF doc.ok /\ SkipWhitespace(text, doc.next) = Len(text) + 1
        THEN doc
        ELSE ParseError

\* what send_command gives: the value of return hasil, or the
\* {"status": "ERROR", "data": str(e)} of the exception it caught
Returned(hasil) == [caught |-> "none", hasil |-> hasil]

Caught(exc) == [caught |-> exc, hasil |-> JsonNull]

\* send_command has not ended
NotReturned == Returned(JsonNull)

\* hasil = json.loads(data_received); return hasil
LoadsAndReturn(text) ==
    LET doc == JsonLoads(text)
    IN  IF doc.ok THEN Returned(doc.val) ELSE Caught("JSONDecodeError")

\* send_command when all the bytes the peer sends come in one chunk
SendCommandOneChunk(bytes) ==
    LET text == Utf8Decode(bytes)
    IN  IF ~text.ok THEN Caught("UnicodeDecodeError")
        ELSE LoadsAndReturn(text.chars)

\* {"status":"OK"}\r\n\r\n
FrameOk ==
    << 123, 34, 115, 116, 97, 116, 117, 115, 34, 58, 34, 79, 75, 34, 125,
       13, 10, 13, 10 >>

\* {"status":"OK","data":["é.dat"]}\r\n\r\n
FrameAccent ==
    << 123, 34, 115, 116, 97, 116, 117, 115, 34, 58, 34, 79, 75, 34, 44,
       34, 100, 97, 116, 97, 34, 58, 91, 34, 195, 169, 46, 100, 97, 116,
       34, 93, 125, 13, 10, 13, 10 >>

\* {"status":"ERROR","data":"no"}\r\n\r\n
FrameError ==
    << 123, 34, 115, 116, 97, 116, 117, 115, 34, 58, 34, 69, 82, 82, 79,
       82, 34, 44, 34, 100, 97, 116, 97, 34, 58, 34, 110, 111, 34, 125,
       13, 10, 13, 10 >>

\* {"status":"OK","data_file":"TWE="}\r\n\r\n
FrameFile ==
    << 123, 34, 115, 116, 97, 116, 117, 115, 34, 58, 34, 79, 75, 34, 44,
       34, 100, 97, 116, 97, 95, 102, 105, 108, 101, 34, 58, 34, 84, 87,
       69, 61, 34, 125, 13, 10, 13, 10 >>

\* 12\r\n\r\n
FrameNumber ==
    << 49, 50, 13, 10, 13, 10 >>

\* oops\r\n\r\n
FrameText ==
    << 111, 111, 112, 115, 13, 10, 13, 10 >>

\* {"status":"OK"
FrameCut ==
    << 123, 34, 115, 116, 97, 116, 117, 115, 34, 58, 34, 79, 75, 34 >>

\* nothing: the peer closes at once
FrameEmpty == << >>

\* {"status":"OK"} and no terminator: the peer closes after the document
FrameBare ==
    << 123, 34, 115, 116, 97, 116, 117, 115, 34, 58, 34, 79, 75, 34, 125 >>

\* {"data":["é"]} and no terminator
FrameAccentBare ==
    << 123, 34, 100, 97, 116, 97, 34, 58, 91, 34, 195, 169, 34, 93, 125 >>

\* the frames a peer may send
Frames ==
    {FrameOk, FrameAccent, FrameError, FrameFile, FrameNumber, FrameText,
     FrameCut, FrameEmpty, FrameBare, FrameAccentBare}

\* send_command is entered by the one worker of a run, which the call
\* leaves as it is
InitFrame ==
    /\ num_workers = 1
    /\ use_process_pool = FALSE
    /\ server_kind = "arbitrary"
    /\ fixture = PriorFixture
    /\ store = [f \in {Filename(w) : w \in 0..(MaxWorkers - 1)} |-> NoStored]
    /\ pc = [w \in {0} |-> "upload_wait"]
    /\ file_data = [w \in {0} |-> PriorFixture.content]
    /\ recording = FALSE
    /\ heard = [w \in {0} |-> << >>]
    /\ results = [w \in {0} |-> NewResults(w)]
    /\ sent = [w \in {0} |-> << >>]
    /\ connections = [w \in {0} |-> 0]
    /\ all_results = << >>
    /\ stage = "running"
    /\ report = NoReport
    /\ fpc = "entered"
    /\ sock = "none"
    /\ frame \in Frames
    /\ wire = frame
    /\ data_received = << >>
    /\ ret = NotReturned
    /\ CodecIdle

\* sock = socket.socket(...); sock.connect(...), then sendall and
\* data_received = ""
Connect ==
    /\ fpc = "entered"
    /\ fpc' = "recv"
    /\ sock' = "connected"
    /\ UNCHANGED << poolVars, codecVars, wire, frame, data_received, ret >>

\* sock.connect raises: it stands before the try, so the exception leaves
\* send_command and sock.close() is not reached
ConnectRaises ==
    /\ fpc = "entered"
    /\ fpc' = "raised"
    /\ sock' = "created"
    /\ ret' = Caught("ConnectionRefusedError")
    /\ UNCHANGED << poolVars, codecVars, wire, frame, data_received >>

\* the end of send_command: the return of the try or of the except branch,
\* and the finally that closes the socket
Finish(outcome) ==
    /\ fpc' = "returned"
    /\ ret' = outcome
    /\ sock' = "closed"

\* data = sock.recv(8192) gives n bytes: they are decoded and added to
\* data_received, and the loop ends when the terminator is there
Recv(n) ==
    /\ fpc = "recv"
    /\ n >= 1 /\ n <= Min(RecvSize, Len(wire))
    /\ wire' = Drop(wire, n)
    /\ LET data == Utf8Decode(Take(wire, n))
       IN  IF ~data.ok
           THEN /\ Finish(Caught("UnicodeDecodeError"))
                /\ UNCHANGED data_received
           ELSE /\ data_received' = data_received \o data.chars
                /\ IF HasTerminator(data_received')
                   THEN Finish(LoadsAndReturn(data_received'))
                   ELSE UNCHANGED << fpc, ret, sock >>
    /\ UNCHANGED << poolVars, codecVars, frame >>

\* the peer has sent everything and closes: sock.recv gives b'' and the
\* loop ends
RecvEnd ==
    /\ fpc = "recv"
    /\ wire = << >>
    /\ Finish(LoadsAndReturn(data_received))
    /\ UNCHANGED << poolVars, codecVars, wire, frame, data_received >>

NextFrame ==
    \/ Connect
    \/ ConnectRaises
    \/ \E n \in 1..Len(wire) : Recv(n)
    \/ RecvEnd

SpecFrame == InitFrame /\ [][NextFrame]_vars

(***************************************************************************)
(* One file through the codec: remote_upload builds the UPLOAD command for *)
(* the bytes of content, and remote_get gets them back from a response.    *)
(* command_str is a str: the sequence of its code points.                  *)
(***************************************************************************)
\* the longest file that is followed
MaxPayload == 4

\* the bytes its content is made of
SampleBytes == {0, 1, 77, 128, 255}

\* the files that are followed: every sequence of sample bytes, up to
\* MaxPayload of them
Payloads ==
    UNION {[1..n -> SampleBytes] : n \in 0..MaxPayload}

\* the character of the base64 alphabet with index c: A-Z, a-z, 0-9, +, /
\* and the padding =
B64Ascii(c) ==
    IF c < 26 THEN 65 + c
    ELSE IF c < 52 THEN 97 + (c - 26)
    ELSE IF c < 62 THEN 48 + (c - 52)
    ELSE IF c = 62 THEN 43
    ELSE IF c = 63 THEN 47
    ELSE 61

\* a character of the base64 alphabet, the padding included
IsB64Ascii(a) == \E c \in 0..Pad : B64Ascii(c) = a

\* the index of a character of the alphabet
B64Index(a) == CHOOSE c \in 0..Pad : B64Ascii(c) = a

\* base64.b64encode(file_data): the encoded text as ASCII bytes
B64EncodeBytes(bytes) ==
    [i \in 1..Len(B64Encode(bytes)) |-> B64Ascii(B64Encode(bytes)[i])]

\* base64.b64decode of a str: the characters outside the alphabet are
\* discarded, the others decoded
B64DecodeText(text) ==
    LET kept == SelectSeq(text, IsB64Ascii)
    IN  B64Decode([i \in 1..Len(kept) |-> B64Index(kept[i])])

\* "\r\n"
Crlf == << 13, 10 >>

\* str(n) of a number below 100
Digits(n) ==
    IF n < 10 THEN << 48 + n >>
    ELSE << 48 + (n \div 10), 48 + (n % 10) >>

\* f"testfile_{worker_id}_{file_size_mb}mb.dat"
FilenameText(worker_id) ==
    << 116, 101, 115, 116, 102, 105, 108, 101, 95 >> \o Digits(worker_id)
        \o << 95 >> \o Digits(file_size_mb) \o << 109, 98, 46, 100, 97, 116 >>

\* remote_upload: encoded_content = base64.b64encode(file_data).decode(),
\* command_str = f"UPLOAD {filename}\r\n{encoded_content}\r\n\r\n"
UploadCommandStr(filename, bytes) ==
    LET encoded_content == Utf8Decode(B64EncodeBytes(bytes)).chars
    IN  << 85, 80, 76, 79, 65, 68, 32 >> \o filename \o Crlf
            \o encoded_content \o Crlf \o Crlf

\* a file is handed to remote_upload
InitCodec ==
    /\ num_workers = 1
    /\ use_process_pool = FALSE
    /\ server_kind = "stub"
    /\ fixture = NoFixture
    /\ store = [f \in {Filename(w) : w \in 0..(MaxWorkers - 1)} |-> NoStored]
    /\ pc = [w \in {0} |-> "read"]
    /\ file_data = [w \in {0} |-> << >>]
    /\ recording = FALSE
    /\ heard = [w \in {0} |-> << >>]
    /\ results = [w \in {0} |-> NewResults(w)]
    /\ sent = [w \in {0} |-> << >>]
    /\ connections = [w \in {0} |-> 0]
    /\ all_results = << >>
    /\ stage = "running"
    /\ report = NoReport
    /\ FrameIdle
    /\ cpc = "start"
    /\ content \in Payloads
    /\ command_str = << >>
    /\ isifile = ReturnNone

\* remote_upload builds the command
BuildUpload ==
    /\ cpc = "start"
    /\ command_str' = UploadCommandStr(FilenameText(0), content)
    /\ cpc' = "uploaded"
    /\ UNCHANGED << poolVars, frameVars, content, isifile >>

\* remote_get, on an OK response whose data_file is the encoding of the
\* file
Fetch ==
    /\ cpc = "uploaded"
    /\ isifile' = RemoteGet(OkFile(content))
    /\ cpc' = "fetched"
    /\ UNCHANGED << poolVars, frameVars, content, command_str >>

NextCodec == BuildUpload \/ Fetch

SpecCodec == InitCodec /\ [][NextCodec]_vars

(***************************************************************************)
(* Properties of the pool.                                                 *)
(***************************************************************************)
\* the workers whose UPLOAD was answered with status ERROR
UploadAnsweredError ==
    {w \in Workers : /\ results[w].upload.present
                     /\ results[w].upload.server_response.status = "ERROR"}

\* the results of a worker that uploaded d to a stub that answers OK
UnaffectedResults(w, d) ==
    [worker_id |-> w,
     upload |-> [present |-> TRUE, success |-> TRUE, time |-> Elapsed(d),
                 bytes |-> Len(d), server_response |-> OkResp],
     download |-> [present |-> TRUE, success |-> TRUE, time |-> Elapsed(d),
                   bytes |-> Len(d), data_valid |-> TRUE, error |-> "none"],
     error |-> "none"]

\* C1: failure containment.  Against a stub server that answers the UPLOAD
\* of any set of workers with ERROR, the loop over the futures is never
\* aborted, all_results holds one result for each worker that was collected,
\* the result that worker returned, and holds one for every worker once the
\* loop has ended; a worker whose UPLOAD was not answered with ERROR returns
\* the results it returns when no UPLOAD is: upload and download succeeded,
\* with the bytes it uploaded.
FailureContainment ==
    server_kind \in StubKinds =>
        /\ stage # "aborted"
        /\ Len(all_results) = Cardinality(Collected)
        /\ \A i \in 1..Len(all_results) :
             all_results[i] = results[all_results[i].worker_id]
        /\ stage # "running" =>
             Collected = Workers /\ Len(all_results) = num_workers
        /\ \A w \in Workers \ UploadAnsweredError :
             pc[w] = "done" =>
                results[w] = UnaffectedResults(w, store[Filename(w)].bytes)

\* some UPLOAD was answered with ERROR, another worker went through, and
\* every result is collected
FailureContained ==
    /\ server_kind = "stub_upload_errors"
    /\ stage # "running"
    /\ Len(all_results) = num_workers
    /\ UploadAnsweredError # {}
    /\ \E w \in Workers \ UploadAnsweredError : DownloadOk(results[w])

\* a result says that something failed
FaultRecorded(r) ==
    \/ r.error # "none"
    \/ r.upload.present /\ ~r.upload.success
    \/ r.download.present /\ ~r.download.success

\* an answer with a fault: no JSON object, no status field, or a payload
\* that does not decode
FaultInAnswer(resp) ==
    \/ resp.kind = "other"
    \/ resp.kind = "dict" /\ resp.status = "none"
    \/ /\ resp.kind = "dict"
       /\ resp.status = "OK"
       /\ resp.data_file.present
       /\ ~B64Decodes(resp.data_file.text)

\* C2: worker_task never propagates a fault, and the result it returns
\* carries the worker's id and records the fault: after a refused
\* connection the error of the result is set, and after an answer with a
\* fault, at any stage, the result says that something failed.
FaultsAreRecorded ==
    \A w \in Workers :
        /\ pc[w] # "raised"
        /\ pc[w] = "done" =>
             /\ results[w].worker_id = w
             /\ (\E i \in 1..Len(heard[w]) : FaultInAnswer(heard[w][i].resp))
                    => FaultRecorded(results[w])

\* C3: run_full_test returns a report whatever the results of the workers
\* are: once the loop over the futures has ended, the statistics give a
\* report and raise nothing.
ReportForEveryOutcome ==
    stage # "running" => stage = "reported" /\ report.made

\* the statistics of one phase as they are specified
PhaseAsClaimed(stats, ok, bytes, times) ==
    /\ stats.successful = Cardinality(ok)
    /\ stats.failed = num_workers - Cardinality(ok)
    /\ stats.successful + stats.failed = num_workers
    /\ stats.total_bytes = SumOver(bytes, ok)
    /\ times # {}
    /\ stats.total_time = MaxOf(times)
    /\ stats.throughput =
          IF MaxOf(times) > 0
          THEN Quotient(SumOver(bytes, ok), MaxOf(times))
          ELSE Quotient(0, 1)

\* C4: for every set of worker results, run_full_test gives a report, and
\* in it each phase has successful = the number of results whose outcome
\* succeeded, failed = num_workers - successful, total_bytes = the bytes of
\* the successful outcomes, throughput = total_bytes over the maximum of the
\* elapsed times.
StatisticsAsClaimed ==
    stage # "running" =>
        /\ report.made
        /\ PhaseAsClaimed(report.upload,
                          {i \in 1..Len(all_results) :
                                all_results[i].upload.present
                                /\ all_results[i].upload.success},
                          [i \in 1..Len(all_results) |->
                                all_results[i].upload.bytes],
                          {all_results[i].upload.time :
                                i \in {j \in 1..Len(all_results) :
                                          all_results[j].upload.present}})
        /\ PhaseAsClaimed(report.download,
                          {i \in 1..Len(all_results) :
                                all_results[i].download.present
                                /\ all_results[i].download.success},
                          [i \in 1..Len(all_results) |->
                                all_results[i].download.bytes],
                          {all_results[i].download.time :
                                i \in {j \in 1..Len(all_results) :
                                          /\ all_results[j].download.present
                                          /\ all_results[j].download.success}})

\* every worker's result is in all_results, once
AllCollected == Collected = Workers /\ Len(all_results) = num_workers

\* C5: whatever the number of workers, the kind of pool and the order the
\* workers run in, a worker is never collected twice, and when every server
\* exchange terminates the loop over the futures comes to hold one result of
\* each worker 0..num_workers-1, for good.
PoolCollectsAll ==
    /\ [](Len(all_results) = Cardinality(Collected) /\ Collected \subseteq Workers)
    /\ <>[]AllCollected

\* the process pool has collected the results of MaxWorkers workers, one of
\* them with a fault
ProcessPoolCollectedAll ==
    /\ AllCollected
    /\ use_process_pool
    /\ num_workers = MaxWorkers
    /\ \E w \in Workers : results[w].error # "none"

\* C6: when the response to the UPLOAD is a dictionary whose status is not
\* OK, the worker is done at once: its download outcome is the 'Upload
\* failed, skipping download' one, and the UPLOAD is the only command it
\* has sent.
UploadNotOkSkips ==
    \A w \in Workers :
        (results[w].upload.present
         /\ results[w].upload.server_response.status # "OK") =>
            /\ pc[w] = "done"
            /\ ~results[w].upload.success
            /\ results[w].download = SkippedDownload
            /\ sent[w] = << UploadCommand(Filename(w)) >>

\* a worker is done after an UPLOAD answered with ERROR, another after a
\* response without status
UploadNotOkSkipped ==
    /\ \E w \in Workers :
         /\ pc[w] = "done"
         /\ results[w].upload.present
         /\ results[w].upload.server_response.status = "ERROR"
    /\ \E w \in Workers :
         /\ pc[w] = "done"
         /\ results[w].upload.present
         /\ results[w].upload.server_response.status = "none"

\* the answer a worker got to its LIST: the third thing it heard
ListHeard(w) == heard[w][3].resp

\* the response holds a sequence of filenames ('data' missing: the empty one)
HoldsSequence(resp) == resp.kind = "dict" /\ resp.data.t \in {"list", "none"}

\* C7: a worker sends GET only when its filename is an element of the
\* sequence the LIST returned, and when the filename is absent from the
\* sequence the worker is done, its download outcome the 'File not found
\* on server after upload' one, and no GET sent.
GetOnlyWhenListed ==
    \A w \in Workers :
        Len(heard[w]) >= 3 =>
            /\ GetCommand(Filename(w)) \in Range(sent[w]) =>
                  /\ HoldsSequence(ListHeard(w))
                  /\ Filename(w) \in ListHeard(w).data.names
            /\ (HoldsSequence(ListHeard(w))
                /\ Filename(w) \notin ListHeard(w).data.names) =>
                  /\ pc[w] = "done"
                  /\ results[w].download = NotFoundDownload
                  /\ GetCommand(Filename(w)) \notin Range(sent[w])

\* C8: when the response to LIST has status ERROR, whatever its message,
\* the worker is done with a failed download outcome and sends no GET.
ListErrorFailsVerify ==
    \A w \in Workers :
        (Len(heard[w]) >= 3 /\ ListHeard(w).status = "ERROR") =>
            /\ pc[w] = "done"
            /\ results[w].download.present
            /\ ~results[w].download.success
            /\ GetCommand(Filename(w)) \notin Range(sent[w])

\* remote_get as it is specified
RemoteGetAsClaimed(hasil) ==
    IF /\ hasil.kind = "dict"
       /\ hasil.status = "OK"
       /\ hasil.data_file.present
       /\ B64Decodes(hasil.data_file.text)
    THEN Return(B64DecodeGroups(hasil.data_file.text))
    ELSE ReturnNone

\* C9: remote_get returns the decoded bytes when the response has status
\* OK and a payload that decodes, and returns None, raising nothing, for
\* every other response; the worker's result shows what it returned.
RemoteGetNeverRaises ==
    \A w \in Workers :
        Len(heard[w]) >= 4 =>
            /\ RemoteGet(heard[w][4].resp)
                  = RemoteGetAsClaimed(heard[w][4].resp)
            /\ results[w].error = "none"
            /\ results[w].download.present

\* the workers that write the fixture: they found none, and have not ended
\* generate_test_file
FixtureWriters == {w \in Workers : pc[w] \in {"generate", "write"}}

\* the workers that have read the fixture
FixtureReaders ==
    {w \in Workers : pc[w] \notin {"init", "generate", "write", "read"}}

\* C12: in a run of two workers or more the fixture is written once at
\* most, and not while or after a worker reads it: no two workers are
\* writing it, and none is writing it once a worker has read it.
FixtureWrittenOnce ==
    num_workers >= 2 =>
        /\ Cardinality(FixtureWriters) <= 1
        /\ FixtureWriters # {} => FixtureReaders = {}

\* C20: every worker that has read the fixture uploads FileBytes bytes, the
\* requested size, and the workers of a run upload the same bytes.
UploadsTheFixture ==
    /\ \A w \in Workers :
          /\ pc[w] = "upload_wait" => Len(file_data[w]) = FileBytes
          /\ results[w].upload.present => results[w].upload.bytes = FileBytes
    /\ \A w, v \in Workers :
          /\ (pc[w] = "upload_wait" /\ pc[v] = "upload_wait") =>
                file_data[w] = file_data[v]
          /\ (store[Filename(w)].present /\ store[Filename(v)].present) =>
                store[Filename(w)].bytes = store[Filename(v)].bytes

\* C14: against the stub that accepts every UPLOAD, lists what it holds and
\* gives back the bytes last uploaded under a name, every worker that is
\* done has used a remote name no other worker asks for, and reports no
\* fault, upload success, download success and a matching prefix, with as
\* many bytes downloaded as uploaded, whatever the other workers have done
\* so far.
StubEndToEnd ==
    server_kind = "stub" =>
        /\ \A w \in Workers :
              pc[w] = "done" =>
                /\ \A v \in Workers \ {w} :
                      GetCommand(Filename(w)) \notin Range(sent[v])
                /\ results[w].error = "none"
                /\ UploadOk(results[w])
                /\ DownloadOk(results[w])
                /\ results[w].download.data_valid
                /\ results[w].download.bytes = results[w].upload.bytes
                /\ Len(store[Filename(w)].bytes) = results[w].upload.bytes

\* MaxWorkers workers are done against the stub, two of them with different
\* bytes uploaded
StubEndToEndDone ==
    /\ server_kind = "stub"
    /\ num_workers = MaxWorkers
    /\ \A w \in Workers : pc[w] = "done" /\ DownloadOk(results[w])
    /\ \E w, v \in Workers :
          /\ Len(store[Filename(w)].bytes) = FileBytes
          /\ Len(store[Filename(v)].bytes) = FileBytes
          /\ store[Filename(w)].bytes # store[Filename(v)].bytes

\* UPLOAD, LIST, GET
CommandSequence(w) ==
    << UploadCommand(Filename(w)), ListCommand, GetCommand(Filename(w)) >>

\* C15: the commands a worker has sent are the first ones of UPLOAD, LIST,
\* GET, each sent once; it has sent nothing before it has read the
\* fixture, the UPLOAD alone while it waits for the answer to the UPLOAD,
\* UPLOAD and LIST while it waits for the answer to the LIST, and LIST only
\* after a successful upload outcome; and it has created one socket for
\* each command it sent, and one more only for a connection that was
\* refused.
CommandsInOrder ==
    \A w \in Workers :
        /\ Len(sent[w]) <= 3
        /\ sent[w] = Take(CommandSequence(w), Len(sent[w]))
        /\ pc[w] \in {"init", "generate", "write", "read"} => sent[w] = << >>
        /\ pc[w] = "upload_wait" => Len(sent[w]) = 1
        /\ pc[w] = "list_wait" => Len(sent[w]) = 2
        /\ pc[w] = "get_wait" => Len(sent[w]) = 3
        /\ Len(sent[w]) >= 2 => UploadOk(results[w])
        /\ connections[w] >= Len(sent[w])
        /\ connections[w] <= Len(sent[w]) + 1
        /\ connections[w] > Len(sent[w]) =>
              results[w].error = "ConnectionRefusedError"

\* a worker is done after UPLOAD, LIST and GET on three connections,
\* another after a connection that was refused
AllCommandsSent ==
    /\ \E w \in Workers :
          /\ pc[w] = "done"
          /\ sent[w] = CommandSequence(w)
          /\ connections[w] = 3
    /\ \E w \in Workers :
          /\ pc[w] = "done"
          /\ Len(sent[w]) = 2
          /\ connections[w] = 3

\* the results of the workers in the order of their ids
ResultsById == [i \in 1..num_workers |-> results[i - 1]]

\* C16: the statistics come after the last worker.  As long as a worker
\* has not returned, run_full_test is in the loop over the futures and
\* there is no report; the loop is never left early; and once it is left
\* every result is collected and the statistics, report or ValueError, are
\* those of the results taken in the order of the worker ids, whatever the
\* order the workers finished in.
ReportAfterAllFinished ==
    /\ stage # "aborted"
    /\ (\E w \in Workers : pc[w] # "done") =>
          stage = "running" /\ report = NoReport
    /\ stage # "running" => AllCollected
    /\ stage = "raised" => StatisticsRaise(ResultsById) /\ report = NoReport
    /\ stage = "reported" =>
          /\ ~StatisticsRaise(ResultsById)
          /\ report = Statistics(ResultsById, num_workers, use_process_pool)

\* a report is made of MaxWorkers results that differ, the result of
\* worker 0 not the first to be collected
ReportedOutOfOrder ==
    /\ stage = "reported"
    /\ num_workers = MaxWorkers
    /\ all_results[1].worker_id # 0
    /\ DownloadOk(all_results[1]) # DownloadOk(all_results[2])
    /\ all_results[1].upload.bytes # all_results[2].upload.bytes

\* C18: in the result of a worker that has returned, and in every result
\* collected, a successful download comes with a successful upload and a
\* download outcome with an upload outcome; and a report counts no more
\* successful downloads than successful uploads.
DownloadImpliesUpload ==
    /\ \A w \in Workers :
          pc[w] = "done" =>
            /\ DownloadOk(results[w]) => UploadOk(results[w])
            /\ results[w].download.present => results[w].upload.present
    /\ \A i \in 1..Len(all_results) :
          /\ DownloadOk(all_results[i]) => UploadOk(all_results[i])
          /\ all_results[i].download.present => all_results[i].upload.present
    /\ report.made =>
          report.download.successful <= report.upload.successful

\* a report with fewer successful downloads than successful uploads
FewerDownloadsReported ==
    /\ stage = "reported"
    /\ report.made
    /\ report.download.successful >= 1
    /\ report.download.successful < report.upload.successful

\* the bytes a worker has uploaded: what the stub stored, and the fixture,
\* which is not written in a run against another server
SourcePayload(w) ==
    IF store[Filename(w)].present THEN store[Filename(w)].bytes
    ELSE fixture.content

\* two payloads have the same first n bytes: the same bytes at the
\* positions up to n that they have, and the same positions
SamePrefix(a, b, n) ==
    \A i \in 1..n :
        /\ i <= Len(a) <=> i <= Len(b)
        /\ (i <= Len(a) /\ i <= Len(b)) => a[i] = b[i]

\* C17: when remote_get has returned a payload, whatever it is, the
\* download outcome has success true and the number of its bytes, and
\* data_valid is true exactly when its first PrefixLen bytes are the first
\* PrefixLen bytes of the payload the worker uploaded.
PrefixOnlyVerdict ==
    \A w \in Workers :
        Len(heard[w]) >= 4 =>
            LET got == RemoteGet(heard[w][4].resp)
            IN  (~got.raised /\ ~got.none) =>
                    /\ pc[w] = "done"
                    /\ results[w].download.present
                    /\ results[w].download.success
                    /\ results[w].download.bytes = Len(got.bytes)
                    /\ results[w].download.data_valid
                          <=> SamePrefix(got.bytes, SourcePayload(w),
                                         PrefixLen)

\* a download as long as the source that differs from it, after the first
\* PrefixLen bytes only, is reported as a success with a matching prefix
DiffersAfterPrefix ==
    \E w \in Workers :
        /\ Len(heard[w]) >= 4
        /\ ~RemoteGet(heard[w][4].resp).raised
        /\ ~RemoteGet(heard[w][4].resp).none
        /\ RemoteGet(heard[w][4].resp).bytes # SourcePayload(w)
        /\ Len(RemoteGet(heard[w][4].resp).bytes) = Len(SourcePayload(w))
        /\ results[w].download.success
        /\ results[w].download.data_valid

(***************************************************************************)
(* Properties of send_command.                                             *)
(***************************************************************************)
\* C10: frame completeness.  However the bytes of a frame are split into
\* the chunks sock.recv gives, 1-byte chunks included, send_command
\* returns what it returns when the frame comes in one chunk.
ChunkingInvariance ==
    fpc = "returned" => ret = SendCommandOneChunk(frame)

\* the peer sent the bytes of the frame, none of them a terminator, and
\* closed
ClosedEarly == ~HasTerminator(frame)

SocketClosedOnExit ==
    fpc \in {"returned", "raised"} => sock = "closed"

(***************************************************************************)
(* Properties of the codec.                                                *)
(***************************************************************************)
\* the position of the first "\r\n" of a text from position i on, 0 when
\* there is none
FirstCrlf(text, i) ==
    LET at == {j \in i..(Len(text) - 1) : SubSeq(text, j, j + 1) = Crlf}
    IN  IF at = {} THEN 0 ELSE CHOOSE j \in at : \A k \in at : j <= k

\* the payload line of an UPLOAD frame: what stands between the "\r\n"
\* that ends the line of the verb and the next one
PayloadLine(text) ==
    LET p == FirstCrlf(text, 1)
        q == FirstCrlf(text, p + 2)
    IN  SubSeq(text, p + 2, q - 1)

\* C13: round trip.  For every file, the payload line of the UPLOAD
\* command remote_upload builds decodes to the bytes of the file, and
\* remote_get gives the bytes of the file for an OK response whose
\* data_file is their encoding.
RoundTrip ==
    /\ cpc \in {"uploaded", "fetched"} =>
          /\ FirstCrlf(command_str, 1) # 0
          /\ B64DecodeText(PayloadLine(command_str)).ok
          /\ B64DecodeText(PayloadLine(command_str)).bytes = content
    /\ cpc = "fetched" => isifile = Return(content)

\* a file that needs two padding characters, with the byte 255 in it, has
\* gone both ways
RoundTripPadded ==
    /\ cpc = "fetched"
    /\ Len(content) % 3 = 1
    /\ 255 \in Range(content)
    /\ 0 \in Range(content)

====
